---- MODULE Spec2Model ----
(***************************************************************************)
(* Model of McpService (backend/src/services/mcpService.ts), the gateway   *)
(* that keeps one client/transport pair per configured MCP server.         *)
(*                                                                         *)
(* The service runs on the Node event loop: a handler runs without         *)
(* interruption from one `await` of an I/O promise to the next.  Each      *)
(* action below is one such run: the code between two I/O awaits of one    *)
(* call.  A process is one caller (an HTTP request) that performs one      *)
(* service operation at a time.                                            *)
(***************************************************************************)
EXTENDS Integers, Sequences, FiniteSets, TLC

(* ---- bounds ---- *)
MaxHandles == 2     \* client/transport pairs created in one behaviour
MaxSweepHandles == 3  \* the same, in the behaviours with a disconnectAll
MaxUpdates == 3     \* writes of one row of mcp_servers

(* defaults of McpServerConfigSchema *)
DefaultTimeout == 30000
DefaultMaxRetries == 3

Procs == {"p1", "p2"}
Ids == {"A", "B"}

(* What a server may answer to tools/list, resources/list, prompts/list.  *)
(* Both servers expose a tool named "search".  Server A is the one whose   *)
(* list requests may fail, at most one of the three in one connect; server *)
(* B answers every list request.                                           *)
Flaky == {"A"}
ToolReplies(id) == {<<"search">>}
ResourceReplies(id) == {<<"doc">>}
PromptReplies(id) == {<<"ask">>}
ToolNames == {"search", "calc"}
Uris == {"doc"}

VARIABLES
  connections,  \* McpService.connections : Map<string, McpClientConnection>
  order,        \* the Map's iteration order: its keys, oldest insertion first
  stored,       \* the configuration records (table mcp_servers), by id
  handles,      \* every client/transport pair constructed so far
  pc,           \* where each caller is suspended
  op,           \* the operation the caller is performing
  serverId,     \* the operation's `serverId` (config.id for a connect)
  cfg,          \* connectToServer's `config` argument
  dconn,        \* disconnectFromServer's local `connection` (its handle)
  client,       \* connectToServer's local `client`/`transport`, or the
                \* client a callTool/readResource request was sent on
  lists,        \* connectToServer's locals tools, resources, prompts
  timer,        \* connectToServer's setTimeout: off, armed, fired (kept
                \* after a connect that it ended until the caller returns)
  elapsed,      \* the configured timeout has elapsed since a request was sent
  sweep,        \* disconnectAll's disconnectPromises: per id of its snapshot,
                \* how far that disconnectFromServer call has come
  ret,          \* what the caller's operation returned or threw, until the
                \* caller has taken it
  mcp_servers,  \* McpModel's table: per id the columns of the row that
                \* `stored` leaves out (name, description, enabled, timeout,
                \* max_retries, updated_at)
  modelReply    \* what the last McpModel.updateServer call returned

vars == <<connections, order, stored, handles, pc, op, serverId, cfg, dconn,
          client, lists, timer, elapsed, sweep, ret, mcp_servers,
          modelReply>>

mcpModel == <<mcp_servers, modelReply>>

(* ---- configuration records (McpServerConfigSchema) ---- *)
Config(id, type, command, url) ==
  [id |-> id, type |-> type, command |-> command, url |-> url]

(* the configurations a caller may hand in for each id *)
Configs(id) ==
  IF id = "A"
  THEN { Config(id, "stdio", TRUE, FALSE), Config(id, "stdio", FALSE, FALSE) }
  ELSE { Config(id, "sse", FALSE, TRUE), Config(id, "sse", FALSE, FALSE),
         Config(id, "websocket", FALSE, TRUE) }

NoConfig == Config("", "", FALSE, FALSE)

(* the record each provider has when the service starts, and the records  *)
(* an update may replace it with                                          *)
InitialConfig(id) ==
  IF id = "A" THEN Config(id, "stdio", TRUE, FALSE)
  ELSE Config(id, "sse", FALSE, TRUE)

UpdateConfigs(id) == Configs(id) \cup {Config(id, "sse", FALSE, TRUE)}

(* ---- status records (McpServerStatus) ---- *)
NoCaps == [tools |-> FALSE, resources |-> FALSE, prompts |-> FALSE]

NullStatus ==
  [id |-> "", status |-> "null", error |-> "", capabilities |-> NoCaps]

ConnectedStatus(id, t, r, q) ==
  [id |-> id, status |-> "connected", error |-> "",
   capabilities |-> [tools |-> Len(t) > 0, resources |-> Len(r) > 0,
                     prompts |-> Len(q) > 0]]

ErrorStatus(id, msg) ==
  [id |-> id, status |-> "error", error |-> msg, capabilities |-> NoCaps]

(* ---- values an operation hands back to its caller ---- *)
(* refreshServerCapabilities returns nothing; its record keeps the status  *)
(* that the connectToServer it awaited returned to it                      *)
OpName(o) ==
  IF o = "connect" THEN "connectToServer"
  ELSE IF o = "refresh" THEN "refreshServerCapabilities"
  ELSE IF o = "disconnect" THEN "disconnectFromServer"
  ELSE IF o \in {"update", "disable"} THEN "PUT /servers/:id"
  ELSE IF o = "delete" THEN "DELETE /servers/:id"
  ELSE IF o = "create" THEN "POST /servers"
  ELSE o

(* an optional value of the source: absent (undefined) or present *)
None == {}

Some(v) == {v}

(* `x || d` where a present x is an array (truthy) or a boolean and d is  *)
(* [] or false: the present value, d for an absent one                   *)
OrElse(x, d) == IF x = None THEN d ELSE CHOOSE v \in x : TRUE

(* how the client.request of a callTool/readResource settled: not sent,    *)
(* resolved with the server's result, or rejected                          *)
NoAnswer == [settled |-> "none", content |-> None, isError |-> None]

Resolved(result) ==
  [settled |-> "resolved", content |-> result.content,
   isError |-> result.isError]

Rejected == [settled |-> "rejected", content |-> None, isError |-> None]

NoRet == [of |-> "none", id |-> "", kind |-> "none", status |-> NullStatus,
          content |-> <<>>, isError |-> FALSE, error |-> "", warned |-> {},
          answer |-> NoAnswer]

RetStatus(name, id, st, warned) ==
  [NoRet EXCEPT !.of = name, !.id = id, !.kind = "return", !.status = st,
                !.warned = warned]

RetVoid(name, id) == [NoRet EXCEPT !.of = name, !.id = id, !.kind = "return"]

(* { content: result.content || [], isError: result.isError || false } *)
RetResponse(name, id, result) ==
  [NoRet EXCEPT !.of = name, !.id = id, !.kind = "return",
                !.content = OrElse(result.content, <<>>),
                !.isError = OrElse(result.isError, FALSE),
                !.answer = Resolved(result)]

RetThrow(name, id, msg, answer) ==
  [NoRet EXCEPT !.of = name, !.id = id, !.kind = "throw", !.error = msg,
                !.answer = answer]

(* connectToServer's locals tools, resources, prompts; `warned` is the    *)
(* list requests whose failure its catch blocks passed to logger.warn    *)
EmptyLists == [tools |-> <<>>, resources |-> <<>>, prompts |-> <<>>,
               warned |-> {}]

(* ---- Map operations ---- *)
MapHas(m, id) == id \in DOMAIN m

MapSet(m, id, v) == [i \in DOMAIN m \cup {id} |-> IF i = id THEN v ELSE m[i]]

MapDelete(m, id) == [i \in DOMAIN m \ {id} |-> m[i]]

EmptyMap == [i \in {} |-> NullStatus]

(* Map.set appends a new key to the iteration order and keeps the place   *)
(* of a key that is present; Map.delete removes the key from it           *)
OrderSet(o, id) ==
  IF \E i \in 1..Len(o) : o[i] = id THEN o ELSE Append(o, id)

OrderDelete(o, id) == SelectSeq(o, LAMBDA k : k # id)

(* one disconnectFromServer call of a disconnectAll: where it is suspended, *)
(* the connection it found, and whether its catch block has logged a       *)
(* failed close                                                            *)
Task(at, conn, warned) == [at |-> at, conn |-> conn, warned |-> warned]

NoSweep == [i \in {} |-> Task("", 0, FALSE)]

(* ---- McpModel: the rows of table mcp_servers ---- *)
(* the values the requests put into the fields of a record *)
Names == {"n1", "n2"}
Descriptions == {"d1", ""}
Timeouts == {DefaultTimeout, 5000}
Retries == {DefaultMaxRetries, 5}

(* a row as SQLite returns it: one key per column, description NULL (None) *)
(* or text, enabled 0 or 1; updated_at counts the writes of the row        *)
Row(name, description, enabled, timeout, max_retries, updated_at) ==
  [name |-> name, description |-> description, enabled |-> enabled,
   timeout |-> timeout, max_retries |-> max_retries,
   updated_at |-> updated_at]

(* the row createServer inserts for a record that names only its name *)
DefaultRow == Row("n1", None, 1, DefaultTimeout, DefaultMaxRetries, 0)

NoReply == [of |-> "none", id |-> "", value |-> None]

Init ==
  /\ connections = EmptyMap
  /\ order = <<>>
  /\ stored = [id \in Ids |-> InitialConfig(id)]
  /\ handles = <<>>
  /\ pc = [p \in Procs |-> "idle"]
  /\ op = [p \in Procs |-> "none"]
  /\ serverId = [p \in Procs |-> ""]
  /\ cfg = [p \in Procs |-> NoConfig]
  /\ dconn = [p \in Procs |-> 0]
  /\ client = [p \in Procs |-> 0]
  /\ lists = [p \in Procs |-> EmptyLists]
  /\ timer = [p \in Procs |-> "off"]
  /\ elapsed = [p \in Procs |-> FALSE]
  /\ sweep = [p \in Procs |-> NoSweep]
  /\ ret = [p \in Procs |-> NoRet]
  /\ mcp_servers = [id \in Ids |-> DefaultRow]
  /\ modelReply = NoReply

(* ---- client/transport pairs ---- *)
(* client.close() and transport.close() are told apart as the source     *)
(* does: each call releases the object it is made on                     *)
NewHandle(id) == [owner |-> id, client |-> "open", transport |-> "open"]

CloseClient(hs, h) == [hs EXCEPT ![h].client = "closed"]

CloseTransport(hs, h) == [hs EXCEPT ![h].transport = "closed"]

(* a connect in progress that has not constructed its client yet; a      *)
(* connect starts only while the pairs built and reserved leave room for  *)
(* one more                                                               *)
Reserved ==
  Len(handles) +
  Cardinality({p \in Procs : pc[p] \in {"closing_client", "closing_transport"}
                             /\ op[p] \in {"connect", "refresh", "update",
                                           "create"}})

(* the caller's operation is over: its locals go out of scope *)
Done(p, r, tm) ==
  /\ pc' = [pc EXCEPT ![p] = "returned"]
  /\ op' = [op EXCEPT ![p] = "none"]
  /\ serverId' = [serverId EXCEPT ![p] = ""]
  /\ cfg' = [cfg EXCEPT ![p] = NoConfig]
  /\ dconn' = [dconn EXCEPT ![p] = 0]
  /\ client' = [client EXCEPT ![p] = 0]
  /\ lists' = [lists EXCEPT ![p] = EmptyLists]
  /\ timer' = [timer EXCEPT ![p] = tm]
  /\ elapsed' = [elapsed EXCEPT ![p] = FALSE]
  /\ sweep' = [sweep EXCEPT ![p] = NoSweep]
  /\ ret' = [ret EXCEPT ![p] = r]

(* the caller is suspended at `label` *)
Await(p, label, o, id, c, d, h, tm) ==
  /\ pc' = [pc EXCEPT ![p] = label]
  /\ op' = [op EXCEPT ![p] = o]
  /\ serverId' = [serverId EXCEPT ![p] = id]
  /\ cfg' = [cfg EXCEPT ![p] = c]
  /\ dconn' = [dconn EXCEPT ![p] = d]
  /\ client' = [client EXCEPT ![p] = h]
  /\ timer' = [timer EXCEPT ![p] = tm]
  /\ elapsed' = [elapsed EXCEPT ![p] = FALSE]
  /\ UNCHANGED <<lists, sweep, ret>>

(* faulty variant: only the transport type is checked *)
ConfigErrorByTypeOnly(c) ==
  IF c.type \in {"stdio", "sse"} THEN "" ELSE "Unsupported transport type"

(* connectToServer after its disconnectFromServer returned: validate the   *)
(* configuration, construct client and transport, arm the timer and start  *)
(* client.connect(transport); the catch block turns a throw into a status  *)
ConfigError(c) ==
  IF c.type = "stdio" THEN
    (IF c.command THEN "" ELSE "Command is required for stdio transport")
  ELSE IF c.type = "sse" THEN
    (IF c.url THEN "" ELSE "URL is required for SSE transport")
  ELSE "Unsupported transport type"

(* faulty variant: the configuration is validated outside the try block *)
CreateAndConnectUncaught(p, o, c, hs) ==
  IF ConfigError(c) # ""
  THEN /\ handles' = hs
       /\ Done(p, RetThrow(OpName(o), c.id, ConfigError(c), NoAnswer), "off")
  ELSE /\ handles' = Append(hs, NewHandle(c.id))
       /\ Await(p, "handshake", o, c.id, c, 0, Len(hs) + 1, "armed")

CreateAndConnect(p, o, c, hs) ==
  IF ConfigError(c) # ""
  THEN /\ handles' = hs
       /\ Done(p, RetStatus(OpName(o), c.id, ErrorStatus(c.id, ConfigError(c)),
                         {}), "off")
  ELSE /\ handles' = Append(hs, NewHandle(c.id))
       /\ Await(p, "handshake", o, c.id, c, 0, Len(hs) + 1, "armed")

(* faulty variant: the map is cleared instead of deleting one key *)
AfterDisconnectClears(p, hs) ==
  /\ connections' = EmptyMap
  /\ order' = <<>>
  /\ UNCHANGED mcpModel
  /\ stored' = IF op[p] = "delete" THEN MapDelete(stored, serverId[p])
               ELSE stored
  /\ IF op[p] \in {"disconnect", "disable", "delete"}
     THEN /\ handles' = hs
          /\ Done(p, IF op[p] = "delete" /\ ~MapHas(stored, serverId[p])
                     THEN RetThrow(OpName(op[p]), serverId[p],
                                   "MCP server not found", NoAnswer)
                     ELSE RetVoid(OpName(op[p]), serverId[p]), "off")
     ELSE CreateAndConnect(p, op[p], cfg[p], hs)

(* faulty variant: the entry is kept and marked disconnected *)
AfterDisconnectMarks(p, hs) ==
  /\ connections' =
       IF MapHas(connections, serverId[p])
       THEN [connections EXCEPT ![serverId[p]].status.status = "disconnected"]
       ELSE connections
  /\ UNCHANGED <<order, stored, mcpModel>>
  /\ IF op[p] \in {"disconnect", "disable", "delete"}
     THEN /\ handles' = hs
          /\ Done(p, RetVoid(OpName(op[p]), serverId[p]), "off")
     ELSE CreateAndConnect(p, op[p], cfg[p], hs)

(* disconnectFromServer after its try/catch: delete the entry and return   *)
AfterDisconnect(p, hs) ==
  /\ connections' = MapDelete(connections, serverId[p])
  /\ order' = OrderDelete(order, serverId[p])
  /\ UNCHANGED mcpModel
  /\ stored' = IF op[p] = "delete" THEN MapDelete(stored, serverId[p])
               ELSE stored
  /\ IF op[p] \in {"disconnect", "disable", "delete"}
     THEN /\ handles' = hs
          /\ Done(p, IF op[p] = "delete" /\ ~MapHas(stored, serverId[p])
                     THEN RetThrow(OpName(op[p]), serverId[p],
                                   "MCP server not found", NoAnswer)
                     ELSE RetVoid(OpName(op[p]), serverId[p]), "off")
     ELSE CreateAndConnect(p, op[p], cfg[p], hs)

(* ---- connectToServer(config) is called ---- *)
ConnectToServer(p, c) ==
  /\ pc[p] = "idle"
  /\ IF MapHas(connections, c.id)
     THEN /\ Await(p, "closing_client", "connect", c.id, c,
                   connections[c.id].client, 0, "off")
          /\ UNCHANGED <<connections, order, stored, mcpModel, handles>>
     ELSE /\ CreateAndConnect(p, "connect", c, handles)
          /\ UNCHANGED <<connections, order, stored, mcpModel>>

(* faulty variant: a disconnect without a Connection is an error *)
DisconnectFromServerStrict(p, id) ==
  /\ pc[p] = "idle"
  /\ IF MapHas(connections, id)
     THEN Await(p, "closing_client", "disconnect", id, NoConfig,
                connections[id].client, 0, "off")
     ELSE Done(p, RetThrow("disconnectFromServer", id,
                           "MCP server not connected", NoAnswer), "off")
  /\ UNCHANGED <<connections, order, stored, mcpModel, handles>>

(* ---- disconnectFromServer(serverId) is called ---- *)
DisconnectFromServer(p, id) ==
  /\ pc[p] = "idle"
  /\ IF MapHas(connections, id)
     THEN Await(p, "closing_client", "disconnect", id, NoConfig,
                connections[id].client, 0, "off")
     ELSE Done(p, RetVoid("disconnectFromServer", id), "off")
  /\ UNCHANGED <<connections, order, stored, mcpModel, handles>>

(* `await connection.client.close()` returns: transport.close() is called  *)
ClientCloseReturns(p) ==
  /\ pc[p] = "closing_client"
  /\ handles' = CloseClient(handles, dconn[p])
  /\ pc' = [pc EXCEPT ![p] = "closing_transport"]
  /\ UNCHANGED <<connections, order, stored, mcpModel, op, sweep, serverId,
                 cfg, dconn, client, lists, timer, elapsed, ret>>

(* `await connection.client.close()` throws: the catch skips the transport *)
ClientCloseThrows(p) ==
  /\ pc[p] = "closing_client"
  /\ AfterDisconnect(p, handles)

TransportCloseReturns(p) ==
  /\ pc[p] = "closing_transport"
  /\ AfterDisconnect(p, CloseTransport(handles, dconn[p]))

(* faulty variant: a failing transport.close() is rethrown, entry kept *)
TransportCloseThrowsPropagates(p) ==
  /\ pc[p] = "closing_transport"
  /\ Done(p, RetThrow(OpName(op[p]), serverId[p], "close failed", NoAnswer),
          "off")
  /\ UNCHANGED <<connections, order, stored, mcpModel, handles>>

TransportCloseThrows(p) ==
  /\ pc[p] = "closing_transport"
  /\ AfterDisconnect(p, handles)

(* ---- the handshake: Promise.race([client.connect(transport), timer]) ---- *)
(* client.connect resolves first: tools/list is requested *)
HandshakeReturns(p) ==
  /\ pc[p] = "handshake"
  /\ pc' = [pc EXCEPT ![p] = "list_tools"]
  /\ lists' = [lists EXCEPT ![p] = EmptyLists]
  /\ UNCHANGED <<connections, order, stored, mcpModel, handles, op, sweep,
                 serverId, cfg, dconn, client, timer, elapsed, ret>>

(* faulty variant: the catch block stores the error status under the id *)
HandshakeThrowsRecords(p, released) ==
  /\ pc[p] = "handshake"
  /\ handles' = IF released
                THEN CloseTransport(CloseClient(handles, client[p]), client[p])
                ELSE handles
  /\ connections' =
       MapSet(connections, serverId[p],
              [client |-> client[p], config |-> cfg[p],
               status |-> ErrorStatus(serverId[p], "handshake failed"),
               tools |-> <<>>, resources |-> <<>>, prompts |-> <<>>])
  /\ order' = OrderSet(order, serverId[p])
  /\ Done(p, RetStatus(OpName(op[p]), serverId[p],
                       ErrorStatus(serverId[p], "handshake failed"), {}),
          "off")
  /\ UNCHANGED <<stored, mcpModel>>

(* client.connect rejects first.  The catch block closes nothing; whether  *)
(* the library released the transport itself (released) is its own affair  *)
HandshakeThrows(p, released) ==
  /\ pc[p] = "handshake"
  /\ handles' = IF released
                THEN CloseTransport(CloseClient(handles, client[p]), client[p])
                ELSE handles
  /\ Done(p, RetStatus(OpName(op[p]), serverId[p],
                       ErrorStatus(serverId[p], "handshake failed"), {}),
          "off")
  /\ UNCHANGED <<connections, order, stored, mcpModel>>

(* faulty variant: client.connect awaited alone, without the race *)
TimerFiresUnraced(p) ==
  /\ timer[p] = "armed"
  /\ timer' = [timer EXCEPT ![p] = "fired"]
  /\ UNCHANGED <<connections, order, stored, mcpModel, handles, pc, op, sweep,
                 serverId, cfg, dconn, client, lists, elapsed, ret>>

(* the setTimeout callback runs: it rejects timeoutPromise, which settles  *)
(* the race only while client.connect is still pending                     *)
TimerFires(p) ==
  /\ timer[p] = "armed"
  /\ IF pc[p] = "handshake"
     THEN Done(p, RetStatus(OpName(op[p]), serverId[p],
                            ErrorStatus(serverId[p], "Connection timeout"),
                            {}), "fired")
     ELSE /\ timer' = [timer EXCEPT ![p] = "fired"]
          /\ UNCHANGED <<pc, op, sweep, serverId, cfg, dconn, client, lists,
                         elapsed, ret>>
  /\ UNCHANGED <<connections, order, stored, mcpModel, handles>>

(* ---- capability discovery ---- *)
(* faulty variant: descriptors are kept as the server sent them *)
TagUnowned(names, id) ==
  [i \in 1..Len(names) |-> [name |-> names[i], serverId |-> ""]]

Tag(names, id) == [i \in 1..Len(names) |-> [name |-> names[i], serverId |-> id]]

ListStep(p, from, to, field, value, threw) ==
  /\ pc[p] = from
  /\ pc' = [pc EXCEPT ![p] = to]
  /\ lists' = [lists EXCEPT ![p][field] = value,
                            ![p].warned = IF threw THEN @ \cup {field} ELSE @]
  /\ UNCHANGED <<connections, order, stored, mcpModel, handles, op, sweep,
                 serverId, cfg, dconn, client, timer, elapsed, ret>>

(* faulty variant: the listed tools are written into the stored entry *)
ListToolsReturnsInPlace(p, reply) ==
  /\ pc[p] = "list_tools"
  /\ pc' = [pc EXCEPT ![p] = "list_resources"]
  /\ lists' = [lists EXCEPT ![p].tools = Tag(reply, serverId[p])]
  /\ connections' =
       IF MapHas(connections, serverId[p])
       THEN [connections EXCEPT ![serverId[p]].tools = Tag(reply, serverId[p])]
       ELSE connections
  /\ UNCHANGED <<order, stored, mcpModel, handles, op, sweep, serverId, cfg,
                 dconn, client, timer, elapsed, ret>>

ListToolsReturns(p, reply) ==
  ListStep(p, "list_tools", "list_resources", "tools", Tag(reply, serverId[p]),
           FALSE)

(* faulty variant: a failed tools/list reaches the outer catch block *)
ListToolsThrowsEscalates(p) ==
  /\ pc[p] = "list_tools"
  /\ Done(p, RetStatus(OpName(op[p]), serverId[p],
                       ErrorStatus(serverId[p], "tools/list failed"), {}),
          "off")
  /\ UNCHANGED <<connections, order, stored, mcpModel, handles>>

ListToolsThrows(p) ==
  ListStep(p, "list_tools", "list_resources", "tools", <<>>, TRUE)

ListResourcesReturns(p, reply) ==
  ListStep(p, "list_resources", "list_prompts", "resources",
           Tag(reply, serverId[p]), FALSE)

ListResourcesThrows(p) ==
  ListStep(p, "list_resources", "list_prompts", "resources", <<>>, TRUE)

(* after the third list request: build status and connection, store, return *)
Install(p, prompts, threw) ==
  LET id == serverId[p]
      warned == IF threw THEN lists[p].warned \cup {"prompts"}
                ELSE lists[p].warned
      st == ConnectedStatus(id, lists[p].tools, lists[p].resources, prompts)
      connection == [client |-> client[p], config |-> cfg[p], status |-> st,
                     tools |-> lists[p].tools,
                     resources |-> lists[p].resources, prompts |-> prompts]
  IN /\ connections' = MapSet(connections, id, connection)
     /\ order' = OrderSet(order, id)
     /\ UNCHANGED <<stored, mcpModel>>
     /\ Done(p, RetStatus(OpName(op[p]), id, st, warned), "off")
     /\ UNCHANGED handles

ListPromptsReturns(p, reply) ==
  /\ pc[p] = "list_prompts"
  /\ Install(p, Tag(reply, serverId[p]), FALSE)

ListPromptsThrows(p) ==
  /\ pc[p] = "list_prompts"
  /\ Install(p, <<>>, TRUE)

(* ---- status and aggregator queries ---- *)
GetServerStatus(id) ==
  IF MapHas(connections, id) THEN connections[id].status ELSE NullStatus

GetAllServerStatuses == [id \in DOMAIN connections |-> connections[id].status]

IsConnected(id) ==
  MapHas(connections, id) /\ connections[id].status.status = "connected"

GetServerTools(id) == IF IsConnected(id) THEN connections[id].tools ELSE <<>>

GetServerResources(id) ==
  IF IsConnected(id) THEN connections[id].resources ELSE <<>>

GetServerPrompts(id) ==
  IF IsConnected(id) THEN connections[id].prompts ELSE <<>>

(* the aggregators walk connections.values() in the Map's iteration order  *)
(* and push the list of every entry whose status is connected              *)
RECURSIVE PushAll(_, _)
PushAll(ids, field) ==
  IF ids = <<>> THEN <<>>
  ELSE (IF connections[Head(ids)].status.status = "connected"
        THEN connections[Head(ids)][field] ELSE <<>>)
       \o PushAll(Tail(ids), field)

GetAllTools == PushAll(order, "tools")

(* faulty variant: the resources aggregator pushes connection.tools *)
GetAllResourcesOfTools == PushAll(order, "tools")

GetAllResources == PushAll(order, "resources")

GetAllPrompts == PushAll(order, "prompts")

Range(seq) == {seq[i] : i \in 1..Len(seq)}

(* ---- refreshServerCapabilities(serverId) is called ---- *)
ClearLists(c) == [c EXCEPT !.tools = <<>>, !.resources = <<>>, !.prompts = <<>>]

(* faulty variant: a refresh of a provider that is not connected throws *)
RefreshServerCapabilitiesStrict(p, id) ==
  /\ pc[p] = "idle"
  /\ IF IsConnected(id)
     THEN /\ connections' = [connections EXCEPT ![id] = ClearLists(@)]
          /\ UNCHANGED <<order, stored, mcpModel>>
          /\ Await(p, "closing_client", "refresh", id, connections[id].config,
                   connections[id].client, 0, "off")
     ELSE /\ Done(p, RetThrow("refreshServerCapabilities", id,
                              "MCP server not connected", NoAnswer), "off")
          /\ UNCHANGED <<connections, order, stored, mcpModel>>
  /\ UNCHANGED handles

RefreshServerCapabilities(p, id) ==
  /\ pc[p] = "idle"
  /\ IF IsConnected(id)
     THEN /\ connections' = [connections EXCEPT ![id] = ClearLists(@)]
          /\ UNCHANGED <<order, stored, mcpModel>>
          /\ Await(p, "closing_client", "refresh", id, connections[id].config,
                   connections[id].client, 0, "off")
     ELSE /\ Done(p, RetVoid("refreshServerCapabilities", id), "off")
          /\ UNCHANGED <<connections, order, stored, mcpModel>>
  /\ UNCHANGED handles

(* ---- callTool(request) and readResource(request) ---- *)
(* faulty variant: without a Connection, use a client built for the id *)
RouteClientCached(id, name) ==
  LET built == {h \in 1..Len(handles) : handles[h].owner = id}
  IN IF MapHas(connections, id) THEN connections[id].client
     ELSE IF built # {} THEN CHOOSE h \in built : TRUE
     ELSE 0

(* faulty variant: look the tool up by name among all connected servers *)
RouteClientByName(id, name) ==
  LET having == {i \in DOMAIN connections :
                   \E k \in 1..Len(connections[i].tools) :
                     connections[i].tools[k].name = name}
  IN IF ~MapHas(connections, id) THEN 0
     ELSE IF having # {} THEN connections[CHOOSE i \in having : TRUE].client
     ELSE connections[id].client

(* the client the request goes to; 0 when the guards throw instead *)
RouteClient(id, name) ==
  IF ~MapHas(connections, id) THEN 0
  ELSE IF connections[id].status.status # "connected" THEN 0
  ELSE connections[id].client

SendRequest(p, o, id, name) ==
  /\ pc[p] = "idle"
  /\ IF RouteClient(id, name) = 0
     THEN Done(p, RetThrow(o, id, "MCP server not connected", NoAnswer), "off")
     ELSE Await(p, "request", o, id, NoConfig, 0, RouteClient(id, name), "off")
  /\ UNCHANGED <<connections, order, stored, mcpModel, handles>>

CallTool(p, id, toolName) == SendRequest(p, "callTool", id, toolName)

ReadResource(p, id, uri) == SendRequest(p, "readResource", id, uri)

(* what a server may answer to tools/call and resources/read *)
Results(o) ==
  IF o = "callTool"
  THEN {[content |-> None, isError |-> None],
        [content |-> Some(<<"text">>), isError |-> None],
        [content |-> Some(<<"text">>), isError |-> Some(TRUE)]}
  ELSE {[content |-> Some(<<"text">>), isError |-> None]}

(* faulty variant: a result with isError set is thrown like a failure *)
RequestReturnsRaisesToolError(p, result) ==
  /\ pc[p] = "request"
  /\ result \in Results(op[p])
  /\ IF result.isError = Some(TRUE)
     THEN Done(p, RetThrow(op[p], serverId[p], "Failed", Resolved(result)),
               "off")
     ELSE Done(p, RetResponse(op[p], serverId[p], result), "off")
  /\ UNCHANGED <<connections, order, stored, mcpModel, handles>>

(* client.request resolves: the response is built from the server's result *)
RequestReturns(p, result) ==
  /\ pc[p] = "request"
  /\ result \in Results(op[p])
  /\ Done(p, RetResponse(op[p], serverId[p], result), "off")
  /\ UNCHANGED <<connections, order, stored, mcpModel, handles>>

(* faulty variant: a rejected request is sent again on the client that is *)
(* stored for the id now                                                  *)
RequestThrowsResends(p) ==
  /\ pc[p] = "request"
  /\ IF /\ MapHas(connections, serverId[p])
        /\ connections[serverId[p]].client # client[p]
     THEN /\ client' = [client EXCEPT ![p] = connections[serverId[p]].client]
          /\ UNCHANGED <<pc, op, sweep, serverId, cfg, dconn, lists, timer,
                         elapsed, ret>>
     ELSE Done(p, RetThrow(op[p], serverId[p], "Failed", Rejected), "off")
  /\ UNCHANGED <<connections, order, stored, mcpModel, handles>>

(* faulty variant: a failed request marks the Connection as in error *)
RequestThrowsDemotes(p) ==
  /\ pc[p] = "request"
  /\ connections' =
       IF MapHas(connections, serverId[p])
       THEN [connections EXCEPT ![serverId[p]].status.status = "error"]
       ELSE connections
  /\ Done(p, RetThrow(op[p], serverId[p], "Failed", Rejected), "off")
  /\ UNCHANGED <<order, stored, mcpModel, handles>>

(* client.request rejects: rethrown as "Failed to call tool ..." *)
RequestThrows(p) ==
  /\ pc[p] = "request"
  /\ Done(p, RetThrow(op[p], serverId[p], "Failed", Rejected), "off")
  /\ UNCHANGED <<connections, order, stored, mcpModel, handles>>

(* the server stays silent for the configured timeout: the code has set no *)
(* timer for a request, so nothing runs                                    *)
RequestTimeoutElapses(p) ==
  /\ pc[p] = "request"
  /\ ~elapsed[p]
  /\ elapsed' = [elapsed EXCEPT ![p] = TRUE]
  /\ UNCHANGED <<connections, order, stored, mcpModel, handles, pc, op, sweep,
                 serverId, cfg, dconn, client, lists, timer, ret>>

(* ---- disconnectAll() ---- *)
(* Array.from(keys).map(disconnectFromServer) starts one call per stored   *)
(* id in the same run: each finds its connection and calls client.close(). *)
(* Promise.allSettled then waits for all of them.                          *)
DisconnectAll(p) ==
  /\ pc[p] = "idle"
  /\ IF DOMAIN connections = {}
     THEN Done(p, RetVoid("disconnectAll", ""), "off")
     ELSE /\ pc' = [pc EXCEPT ![p] = "sweeping"]
          /\ op' = [op EXCEPT ![p] = "disconnectAll"]
          /\ sweep' = [sweep EXCEPT ![p] =
                         [id \in DOMAIN connections |->
                            Task("closing_client", connections[id].client,
                                 FALSE)]]
          /\ UNCHANGED <<serverId, cfg, dconn, client, lists, timer, elapsed,
                         ret>>
  /\ UNCHANGED <<connections, order, stored, mcpModel, handles>>

(* the call for `id` moves on; one that is done has deleted the entry, and *)
(* when every call is done allSettled resolves and disconnectAll returns   *)
SweepStep(p, id, hs, at, threw) ==
  LET tasks == [sweep[p] EXCEPT ![id].at = at,
                                ![id].warned = threw]
      warned == {i \in DOMAIN tasks : tasks[i].warned}
  IN /\ pc[p] = "sweeping"
     /\ handles' = hs
     /\ IF at = "done"
        THEN /\ connections' = MapDelete(connections, id)
             /\ order' = OrderDelete(order, id)
        ELSE UNCHANGED <<connections, order>>
     /\ UNCHANGED <<stored, mcpModel>>
     /\ IF \A i \in DOMAIN tasks : tasks[i].at = "done"
        THEN Done(p, RetStatus("disconnectAll", "", NullStatus, warned), "off")
        ELSE /\ sweep' = [sweep EXCEPT ![p] = tasks]
             /\ UNCHANGED <<pc, op, serverId, cfg, dconn, client, lists,
                            timer, elapsed, ret>>

Suspended(p, id, at) ==
  pc[p] = "sweeping" /\ id \in DOMAIN sweep[p] /\ sweep[p][id].at = at

SweepClientCloseReturns(p, id) ==
  /\ Suspended(p, id, "closing_client")
  /\ SweepStep(p, id, CloseClient(handles, sweep[p][id].conn),
               "closing_transport", FALSE)

(* faulty variant: a failed close ends the sweep; the other calls are left *)
SweepClientCloseThrowsAborts(p, id) ==
  /\ Suspended(p, id, "closing_client")
  /\ Done(p, RetThrow("disconnectAll", "", "close failed", NoAnswer), "off")
  /\ UNCHANGED <<connections, order, stored, mcpModel, handles>>

SweepClientCloseThrows(p, id) ==
  /\ Suspended(p, id, "closing_client")
  /\ SweepStep(p, id, handles, "done", TRUE)

SweepTransportCloseReturns(p, id) ==
  /\ Suspended(p, id, "closing_transport")
  /\ SweepStep(p, id, CloseTransport(handles, sweep[p][id].conn), "done",
               FALSE)

SweepTransportCloseThrows(p, id) ==
  /\ Suspended(p, id, "closing_transport")
  /\ SweepStep(p, id, handles, "done", TRUE)

(* ---- the routes that read or write the configuration records ---- *)
NotFound(p, o, id) ==
  Done(p, RetThrow(OpName(o), id, "MCP server not found", NoAnswer), "off")

(* faulty variant: a server updated to disabled keeps its Connection *)
UpdateServerKeepsConnection(p, c, enabled) ==
  /\ pc[p] = "idle"
  /\ IF ~MapHas(stored, c.id)
     THEN NotFound(p, "update", c.id) /\ UNCHANGED <<stored, mcpModel, handles>>
     ELSE /\ UNCHANGED mcpModel
          /\ stored' = MapSet(stored, c.id, c)
          /\ IF ~enabled
             THEN /\ Done(p, RetVoid(OpName("disable"), c.id), "off")
                  /\ UNCHANGED handles
             ELSE IF MapHas(connections, c.id)
             THEN /\ Await(p, "closing_client", "update", c.id, c,
                           connections[c.id].client, 0, "off")
                  /\ UNCHANGED handles
             ELSE CreateAndConnect(p, "update", c, handles)
  /\ UNCHANGED <<connections, order>>

(* PUT /servers/:id: the record is replaced; then, in the same run, an     *)
(* enabled server is disconnected and connected with the new record and a  *)
(* disabled one is disconnected.  With a Connection stored the run ends at *)
(* client.close(); the connectToServer that follows the disconnect finds   *)
(* no entry and goes on to build its client.                               *)
UpdateServer(p, c, enabled) ==
  /\ pc[p] = "idle"
  /\ IF ~MapHas(stored, c.id)
     THEN NotFound(p, "update", c.id) /\ UNCHANGED <<stored, mcpModel, handles>>
     ELSE /\ UNCHANGED mcpModel
          /\ stored' = MapSet(stored, c.id, c)
          /\ IF MapHas(connections, c.id)
             THEN /\ Await(p, "closing_client",
                           IF enabled THEN "update" ELSE "disable", c.id, c,
                           connections[c.id].client, 0, "off")
                  /\ UNCHANGED handles
             ELSE IF enabled
             THEN CreateAndConnect(p, "update", c, handles)
             ELSE /\ Done(p, RetVoid(OpName("disable"), c.id), "off")
                  /\ UNCHANGED handles
  /\ UNCHANGED <<connections, order>>

(* DELETE /servers/:id: disconnect first, then delete the record *)
DeleteServer(p, id) ==
  /\ pc[p] = "idle"
  /\ IF MapHas(connections, id)
     THEN /\ Await(p, "closing_client", "delete", id, NoConfig,
                   connections[id].client, 0, "off")
          /\ UNCHANGED <<stored, mcpModel>>
     ELSE /\ UNCHANGED mcpModel
          /\ stored' = MapDelete(stored, id)
          /\ IF MapHas(stored, id)
             THEN Done(p, RetVoid(OpName("delete"), id), "off")
             ELSE NotFound(p, "delete", id)
  /\ UNCHANGED <<connections, order, handles>>

(* POST /servers/:id/connect: connectToServer with the record read now *)
ConnectStored(p, id) ==
  IF MapHas(stored, id)
  THEN ConnectToServer(p, stored[id])
  ELSE /\ pc[p] = "idle"
       /\ NotFound(p, "connect", id)
       /\ UNCHANGED <<connections, order, stored, mcpModel, handles>>

(* POST /servers: the record is inserted under the id of the request (a    *)
(* new uuid unless the body names one; an id that has a record fails the   *)
(* INSERT and the handler answers 400); an enabled server is then          *)
(* connected, connectToServer beginning with its disconnectFromServer      *)
CreateServer(p, c, enabled) ==
  /\ pc[p] = "idle"
  /\ IF MapHas(stored, c.id)
     THEN /\ Done(p, RetThrow(OpName("create"), c.id,
                              "Failed to create MCP server", NoAnswer), "off")
          /\ UNCHANGED <<stored, mcpModel, handles>>
     ELSE /\ UNCHANGED mcpModel
          /\ stored' = MapSet(stored, c.id, c)
          /\ IF ~enabled
             THEN /\ Done(p, RetVoid(OpName("create"), c.id), "off")
                  /\ UNCHANGED handles
             ELSE IF MapHas(connections, c.id)
             THEN /\ Await(p, "closing_client", "create", c.id, c,
                           connections[c.id].client, 0, "off")
                  /\ UNCHANGED handles
             ELSE CreateAndConnect(p, "create", c, handles)
  /\ UNCHANGED <<connections, order>>

(* the caller takes the result; its next operation may start *)
Return(p) ==
  /\ pc[p] = "returned"
  /\ pc' = [pc EXCEPT ![p] = "idle"]
  /\ ret' = [ret EXCEPT ![p] = NoRet]
  /\ timer' = [timer EXCEPT ![p] = "off"]
  /\ UNCHANGED <<connections, order, stored, mcpModel, handles, op, sweep,
                 serverId, cfg, dconn, client, lists, elapsed>>

Next ==
  \E p \in Procs :
    \/ Return(p)
    \/ Reserved < MaxHandles
       /\ \E id \in Ids : \E c \in Configs(id) : ConnectToServer(p, c)
    \/ \E id \in Ids : DisconnectFromServer(p, id)
    \/ Reserved < MaxHandles
       /\ \E id \in Ids : RefreshServerCapabilities(p, id)
    \/ ClientCloseReturns(p)
    \/ ClientCloseThrows(p)
    \/ TransportCloseReturns(p)
    \/ TransportCloseThrows(p)
    \/ HandshakeReturns(p)
    \/ TimerFires(p)
    \/ \E released \in BOOLEAN : HandshakeThrows(p, released)
    \/ \E reply \in ToolReplies(serverId[p]) : ListToolsReturns(p, reply)
    \/ serverId[p] \in Flaky /\ ListToolsThrows(p)
    \/ \E reply \in ResourceReplies(serverId[p]) :
         ListResourcesReturns(p, reply)
    \/ /\ serverId[p] \in Flaky
       /\ lists[p].warned = {}
       /\ ListResourcesThrows(p)
    \/ \E reply \in PromptReplies(serverId[p]) : ListPromptsReturns(p, reply)
    \/ /\ serverId[p] \in Flaky
       /\ lists[p].warned = {}
       /\ ListPromptsThrows(p)
    \/ \E id \in Ids : \E t \in ToolNames : CallTool(p, id, t)
    \/ \E id \in Ids : \E u \in Uris : ReadResource(p, id, u)
    \/ \E result \in Results(op[p]) : RequestReturns(p, result)
    \/ RequestThrows(p)
    \/ RequestTimeoutElapses(p)

Spec == Init /\ [][Next]_vars

(* ---- the shutdown sweep among connects ---- *)
(* disconnectAll running while other callers connect with a valid         *)
(* configuration; a handshake fails by its timer, and the servers answer  *)
(* every list request                                                     *)
NextSweep ==
  \E p \in Procs :
    \/ Return(p)
    \/ Reserved < MaxSweepHandles
       /\ \E id \in Ids : \E c \in Configs(id) :
            ConfigError(c) = "" /\ ConnectToServer(p, c)
    \/ DisconnectAll(p)
    \/ \E id \in Ids : SweepClientCloseReturns(p, id)
    \/ \E id \in Ids : SweepClientCloseThrows(p, id)
    \/ \E id \in Ids : SweepTransportCloseReturns(p, id)
    \/ \E id \in Ids : SweepTransportCloseThrows(p, id)
    \/ ClientCloseReturns(p)
    \/ ClientCloseThrows(p)
    \/ TransportCloseReturns(p)
    \/ TransportCloseThrows(p)
    \/ HandshakeReturns(p)
    \/ TimerFires(p)
    \/ ListToolsReturns(p, <<"search">>)
    \/ ListResourcesReturns(p, <<"doc">>)
    \/ ListPromptsReturns(p, <<"ask">>)

SpecSweep == Init /\ [][NextSweep]_vars

(* ---- the requests that change a provider's record ---- *)
(* update, delete and connect requests that all name the same provider; a  *)
(* handshake fails by its timer, and the server answers every list request *)
RouteIds == {"A"}

NextRoutes ==
  \E p \in Procs :
    \/ Return(p)
    \/ Reserved < MaxHandles
       /\ \E id \in RouteIds : ConnectStored(p, id)
    \/ Reserved < MaxHandles
       /\ \E id \in RouteIds : \E c \in UpdateConfigs(id) :
            \E enabled \in BOOLEAN : UpdateServer(p, c, enabled)
    \/ Reserved < MaxHandles
       /\ \E id \in RouteIds : \E c \in Configs(id) :
            \E enabled \in BOOLEAN : CreateServer(p, c, enabled)
    \/ \E id \in RouteIds : DeleteServer(p, id)
    \/ ClientCloseReturns(p)
    \/ ClientCloseThrows(p)
    \/ TransportCloseReturns(p)
    \/ TransportCloseThrows(p)
    \/ HandshakeReturns(p)
    \/ TimerFires(p)
    \/ ListToolsReturns(p, <<"search">>)
    \/ ListResourcesReturns(p, <<"doc">>)
    \/ ListPromptsReturns(p, <<"ask">>)

SpecRoutes == Init /\ [][NextRoutes]_vars

(* ---- McpModel.updateServer ---- *)
(* `x || undefined` and `x || null` on a text column: NULL and the empty   *)
(* string both give the absent value                                       *)
OrAbsent(x) == IF x = None \/ x = Some("") THEN None ELSE x

(* mapRowToServerConfig: the configuration object built from a row.  The   *)
(* last field reads row.maxRetries; the column, and so the key of the row  *)
(* object, is max_retries, and the read gives undefined                    *)
MapRowToServerConfig(row) ==
  [name |-> Some(row.name),
   description |-> OrAbsent(row.description),
   enabled |-> Some(row.enabled # 0),
   timeout |-> Some(row.timeout),
   maxRetries |-> None]

(* the bodies a PUT can carry: each field absent or present with a value *)
Optional(S) == {None} \cup {Some(v) : v \in S}

Updates ==
  [name : Optional(Names), description : Optional(Descriptions),
   enabled : Optional(BOOLEAN), timeout : Optional(Timeouts),
   maxRetries : Optional(Retries)]

(* { ...existing, ...updates } *)
Merge(existing, updates) ==
  [f \in DOMAIN existing |->
     IF updates[f] # None THEN updates[f] ELSE existing[f]]

(* McpServerConfigSchema.parse: an absent field with a default gets it *)
Parse(config) ==
  [name |-> config.name,
   description |-> config.description,
   enabled |-> Some(OrElse(config.enabled, TRUE)),
   timeout |-> Some(OrElse(config.timeout, DefaultTimeout)),
   maxRetries |-> Some(OrElse(config.maxRetries, DefaultMaxRetries))]

(* the values bound to the UPDATE statement *)
UpdatedRow(row, validatedConfig) ==
  Row(OrElse(validatedConfig.name, ""),
      OrAbsent(validatedConfig.description),
      IF OrElse(validatedConfig.enabled, FALSE) THEN 1 ELSE 0,
      OrElse(validatedConfig.timeout, 0),
      OrElse(validatedConfig.maxRetries, 0),
      row.updated_at + 1)

(* updateServer(id, updates): getServer, merge, parse, UPDATE, all in one  *)
(* run (better-sqlite3 is synchronous); null for an id without a row       *)
McpModelUpdateServer(id, updates) ==
  /\ IF ~MapHas(mcp_servers, id)
     THEN /\ modelReply' =
               [of |-> "updateServer", id |-> id, value |-> None]
          /\ UNCHANGED mcp_servers
     ELSE LET existing == MapRowToServerConfig(mcp_servers[id])
              validatedConfig == Parse(Merge(existing, updates))
          IN /\ mcp_servers' =
                  [mcp_servers EXCEPT
                     ![id] = UpdatedRow(@, validatedConfig)]
             /\ modelReply' = [of |-> "updateServer", id |-> id,
                               value |-> Some(validatedConfig)]
  /\ UNCHANGED <<connections, order, stored, handles, pc, op, serverId, cfg,
                 dconn, client, lists, timer, elapsed, sweep, ret>>

(* ---- updates of the stored records ---- *)
(* updateServer called over and over on a stored id and on an id without a *)
(* row, with every body; a row is written at most MaxUpdates times         *)
StoreIds == {"A"}

Unstored == {"C"}

NextStore ==
  \E id \in StoreIds \cup Unstored : \E updates \in Updates :
    /\ MapHas(mcp_servers, id) => mcp_servers[id].updated_at < MaxUpdates
    /\ McpModelUpdateServer(id, updates)

SpecStore == Init /\ [][NextStore]_vars

(***************************************************************************)
(* Properties                                                              *)
(***************************************************************************)
OpenTransports(id) ==
  {h \in 1..Len(handles) :
     handles[h].owner = id /\ handles[h].transport = "open"}

ListStages == {"list_tools", "list_resources", "list_prompts"}

Closing == {"closing_client", "closing_transport"}

HandshakeFailures == {"handshake failed", "Connection timeout"}

(* the requests that are in flight: caller and the client it was sent on *)
InFlight == {<<p, client[p]>> : p \in {q \in Procs : pc[q] = "request"}}

(* C1: for every provider id at most one client/transport pair is open at  *)
(* any moment, whatever the interleaving of connectToServer calls.         *)
C1_OneLivePairPerId == \A id \in Ids : Cardinality(OpenTransports(id)) <= 1

(* C2: a disconnectFromServer(id) in progress never removes a Connection   *)
(* other than the one it found when it began: the entry it deletes is the  *)
(* one whose client and transport it closed.                               *)
C2_DisconnectRemovesOnlyItsOwn ==
  [][\A p \in Procs :
       (op[p] = "disconnect" /\ pc[p] \in Closing /\ pc'[p] = "returned"
        /\ MapHas(connections, serverId[p]))
       => connections[serverId[p]].client = dconn[p]]_vars

(* C3: a callTool or readResource for an id without a connected Connection *)
(* throws the not-connected error and puts no request in flight.           *)
CallStarted(p, id) ==
  /\ pc[p] = "idle"
  /\ \/ pc'[p] = "request" /\ serverId'[p] = id
     \/ /\ pc'[p] = "returned"
        /\ ret'[p].of \in {"callTool", "readResource"}
        /\ ret'[p].id = id

C3_NotConnectedNoRequest ==
  [][\A p \in Procs : \A id \in Ids :
       (CallStarted(p, id) /\ ~IsConnected(id))
       => /\ pc'[p] = "returned"
          /\ ret'[p].kind = "throw"
          /\ ret'[p].error = "MCP server not connected"
          /\ InFlight' = InFlight]_vars

C3_Witness ==
  \E p \in Procs :
    /\ pc[p] = "returned"
    /\ ret[p].of = "callTool"
    /\ ret[p].kind = "throw"
    /\ ret[p].error = "MCP server not connected"
    /\ OpenTransports(ret[p].id) # {}
    /\ ~IsConnected(ret[p].id)

(* C4: two connected providers that expose a tool of the same name both    *)
(* appear in getAllTools, told apart by serverId, and every request in     *)
(* flight is on a client that was built for the provider it names.         *)
SameNameBothListed ==
  \A a \in Ids : \A b \in Ids \ {a} : \A n \in ToolNames :
    (/\ IsConnected(a) /\ IsConnected(b)
     /\ \E k \in 1..Len(connections[a].tools) : connections[a].tools[k].name = n
     /\ \E k \in 1..Len(connections[b].tools) : connections[b].tools[k].name = n)
    => /\ [name |-> n, serverId |-> a] \in Range(GetAllTools)
       /\ [name |-> n, serverId |-> b] \in Range(GetAllTools)

C4_CallsRoutedByServerId ==
  /\ SameNameBothListed
  /\ \A p \in Procs :
       pc[p] = "request" => handles[client[p]].owner = serverId[p]

C4_Witness ==
  /\ IsConnected("A") /\ IsConnected("B")
  /\ [name |-> "search", serverId |-> "A"] \in Range(GetAllTools)
  /\ [name |-> "search", serverId |-> "B"] \in Range(GetAllTools)
  /\ \E p \in Procs :
       pc[p] = "request" /\ op[p] = "callTool" /\ serverId[p] = "A"

(* C5: once connectToServer has failed in the handshake (error or          *)
(* timeout), getServerStatus and getAllServerStatuses report status error  *)
(* with a message for that provider.                                       *)
C5_FailureIsRecorded ==
  [][\A p \in Procs :
       (pc[p] = "handshake" /\ pc'[p] = "returned")
       => /\ MapHas(connections', serverId[p])
          /\ connections'[serverId[p]].status.status = "error"
          /\ connections'[serverId[p]].status.error # ""]_vars

(* C6: when connectToServer leaves the handshake by its failing exit, the  *)
(* transport that this attempt opened is closed.                           *)
C6_FailedAttemptReleased ==
  [][\A p \in Procs :
       (pc[p] = "handshake" /\ pc'[p] = "returned")
       => handles'[client[p]].transport = "closed"]_vars

(* C7: after a successful handshake connectToServer always ends connected: *)
(* no list failure ends it early or in error, the Connection is stored     *)
(* with status connected, a kind whose request failed has an empty list    *)
(* and a kind whose request succeeded holds the server's reply.            *)
Replies(kind, id) ==
  IF kind = "tools" THEN ToolReplies(id)
  ELSE IF kind = "resources" THEN ResourceReplies(id)
  ELSE PromptReplies(id)

C8_RefreshEndsConnectedOrError ==
  [][\A p \in Procs :
       (op[p] = "refresh" /\ pc[p] # "idle" /\ pc'[p] = "returned")
       => /\ MapHas(connections', serverId[p])
          /\ connections'[serverId[p]].status.status \in {"connected", "error"}
     ]_vars

(* C9 as claimed: once the timer of a connectToServer call has fired, the  *)
(* call is no longer pending, whichever step it was waiting on.            *)
C9_ResolvedWhenTimerFires ==
  \A p \in Procs : timer[p] = "fired" => pc[p] = "returned"

(* C9 as amended: a fired timer never leaves the handshake pending; the    *)
(* call it interrupts has returned status error, "Connection timeout".     *)
(* The list requests that follow a completed handshake are not bounded.    *)
C9_HandshakeBoundedByTimer ==
  \A p \in Procs :
    timer[p] = "fired" =>
      \/ pc[p] \in ListStages
      \/ /\ pc[p] = "returned"
         /\ ret[p].kind = "return"
         /\ ret[p].status.status = "error"
         /\ ret[p].status.error = "Connection timeout"

C9_Witness ==
  \E p \in Procs :
    /\ timer[p] = "fired"
    /\ pc[p] = "returned"
    /\ ret[p].of = "connectToServer"
    /\ ret[p].status.error = "Connection timeout"

(* C10: a callTool or readResource is no longer pending once the           *)
(* provider's configured timeout has elapsed since it was sent.            *)
C10_RequestBoundedByTimeout ==
  \A p \in Procs : pc[p] = "request" => ~elapsed[p]

(* C11: callTool and readResource never change Connection state: the step  *)
(* that starts a call and the step that ends it, whether with a response,  *)
(* a tool error or a transport failure, leave the connections map (status  *)
(* and capability lists included) and every client/transport as they were. *)
C11_CallsLeaveConnectionsAlone ==
  [][\A p \in Procs :
       (\/ \E id \in Ids : CallStarted(p, id)
        \/ pc[p] = "request" /\ pc'[p] # "request")
       => connections' = connections /\ handles' = handles]_vars

C11_Witness ==
  \E p \in Procs :
    /\ pc[p] = "returned"
    /\ ret[p].of = "callTool"
    /\ ret[p].kind = "throw"
    /\ ret[p].answer.settled = "rejected"
    /\ IsConnected(ret[p].id)
    /\ connections[ret[p].id].tools # <<>>

(* C12: callTool keeps tool-reported failure and transport failure apart:  *)
(* a request that the provider answered is returned as a response carrying *)
(* the provider's isError and its content items unchanged (an absent       *)
(* content as the empty list), a request that was rejected is raised, and  *)
(* a call that sent no request raised the not-connected error.             *)
C12_ToolErrorIsNotTransportError ==
  \A p \in Procs :
    (pc[p] = "returned" /\ ret[p].of = "callTool") =>
      LET a == ret[p].answer
      IN /\ a.settled = "resolved" =>
              /\ ret[p].kind = "return"
              /\ ret[p].isError = (a.isError = Some(TRUE))
              /\ a.content # None => Some(ret[p].content) = a.content
              /\ a.content = None => ret[p].content = <<>>
         /\ a.settled = "rejected" =>
              ret[p].kind = "throw" /\ ret[p].error = "Failed"
         /\ a.settled = "none" =>
              ret[p].kind = "throw" /\ ret[p].error = "MCP server not connected"

C12_Witness ==
  \E p \in Procs :
    /\ pc[p] = "returned"
    /\ ret[p].of = "callTool"
    /\ ret[p].kind = "return"
    /\ ret[p].isError
    /\ ret[p].content = <<"text">>
    /\ ret[p].answer.settled = "resolved"

(* C13: disconnectFromServer(id) called while id has no Connection returns *)
(* at once without error: it calls no close and leaves the connections map *)
(* and every client/transport as they were.                                *)
DisconnectStarted(p, id) ==
  /\ pc[p] = "idle"
  /\ \/ pc'[p] = "closing_client" /\ op'[p] = "disconnect" /\ serverId'[p] = id
     \/ /\ pc'[p] = "returned"
        /\ ret'[p].of = "disconnectFromServer"
        /\ ret'[p].id = id

C13_DisconnectAbsentIsNoOp ==
  [][\A p \in Procs : \A id \in Ids :
       (DisconnectStarted(p, id) /\ ~MapHas(connections, id))
       => /\ pc'[p] = "returned"
          /\ ret'[p].kind = "return"
          /\ connections' = connections
          /\ handles' = handles]_vars

C13_Witness ==
  \E p \in Procs :
    /\ pc[p] = "returned"
    /\ ret[p].of = "disconnectFromServer"
    /\ ret[p].kind = "return"
    /\ \A h \in 1..Len(handles) : handles[h].owner # ret[p].id
    /\ \E id \in Ids : IsConnected(id)

(* C14: a provider's tools, resources or prompts list is non-empty only if *)
(* its stored status is connected, and a provider that is not connected    *)
(* (never connected, disconnected, or failed to connect) has empty lists   *)
(* in every per-provider query and no descriptor in any aggregator.        *)
StoredList(id, field) ==
  IF MapHas(connections, id) /\ connections[id].status.status = "connected"
  THEN connections[id][field]
  ELSE <<>>

AllDescriptors == GetAllTools \o GetAllResources \o GetAllPrompts

C14_ListsOnlyWhenConnected ==
  \A id \in Ids :
    /\ MapHas(connections, id) =>
         \A field \in {"tools", "resources", "prompts"} :
           connections[id][field] # <<>> =>
             connections[id].status.status = "connected"
    /\ (~MapHas(connections, id) \/ connections[id].status.status # "connected")
         => /\ GetServerTools(id) = <<>>
            /\ GetServerResources(id) = <<>>
            /\ GetServerPrompts(id) = <<>>
            /\ \A d \in Range(AllDescriptors) : d.serverId # id

C14_Witness ==
  \E p \in Procs :
    /\ pc[p] = "returned"
    /\ ret[p].of = "disconnectFromServer"
    /\ ~MapHas(connections, ret[p].id)
    /\ \E h \in 1..Len(handles) :
         handles[h].owner = ret[p].id /\ handles[h].transport = "closed"
    /\ GetAllTools # <<>>

(* C15: the aggregators return exactly the lists of the connected          *)
(* Connections, one after the other: the part of an aggregate that belongs *)
(* to a provider is that provider's stored list when it is connected and   *)
(* empty otherwise, nothing else is in the aggregate, and the per-provider *)
(* queries return that same list.                                          *)
Only(seq, id) == SelectSeq(seq, LAMBDA d : d.serverId = id)

C15_AggregatorsConcatenate ==
  /\ \A id \in Ids :
       /\ Only(GetAllTools, id) = StoredList(id, "tools")
       /\ Only(GetAllResources, id) = StoredList(id, "resources")
       /\ Only(GetAllPrompts, id) = StoredList(id, "prompts")
       /\ GetServerTools(id) = StoredList(id, "tools")
       /\ GetServerResources(id) = StoredList(id, "resources")
       /\ GetServerPrompts(id) = StoredList(id, "prompts")
  /\ \A d \in Range(AllDescriptors) : d.serverId \in Ids
  /\ \A i \in 1..Len(order) : \A j \in 1..Len(order) :
       (i < j /\ GetServerTools(order[i]) # <<>> /\ GetServerTools(order[j]) # <<>>)
       => \E k \in 1..Len(GetAllTools) : \E l \in 1..Len(GetAllTools) :
            /\ k < l
            /\ GetAllTools[k].serverId = order[i]
            /\ GetAllTools[l].serverId = order[j]

C15_Witness ==
  /\ order = <<"B", "A">>
  /\ GetAllTools = <<[name |-> "search", serverId |-> "B"],
                     [name |-> "search", serverId |-> "A"]>>
  /\ GetAllResources = <<[name |-> "doc", serverId |-> "B"],
                         [name |-> "doc", serverId |-> "A"]>>
  /\ GetServerPrompts("A") = <<[name |-> "ask", serverId |-> "A"]>>

(* C17: from the moment connectToServer(id) starts until it finishes, the  *)
(* provider's recorded status is connecting.                               *)
Connecting(p) ==
  /\ op[p] \in {"connect", "refresh"}
  /\ pc[p] \in Closing \cup {"handshake"} \cup ListStages

C17_ConnectingWhileConnecting ==
  \A p \in Procs :
    Connecting(p) => GetServerStatus(serverId[p]).status = "connecting"

(* C19 as claimed: refreshServerCapabilities is a disconnect followed by a *)
(* connect in every state of the provider, so every refresh that has       *)
(* returned holds the status its connectToServer ended with.               *)
C19_RefreshAlwaysReconnects ==
  \A p \in Procs :
    (pc[p] = "returned" /\ ret[p].of = "refreshServerCapabilities")
    => ret[p].status.status \in {"connected", "error"}

(* C19 as amended: on a connected provider refreshServerCapabilities      *)
(* clears the stored lists and then is connectToServer with the           *)
(* Connection's own configuration, which begins by disconnecting that     *)
(* Connection; on a provider that is not connected it changes nothing and *)
(* returns at once; in neither case does it raise.                        *)
RefreshStarted(p, id) ==
  /\ pc[p] = "idle"
  /\ \/ pc'[p] # "idle" /\ op'[p] = "refresh" /\ serverId'[p] = id
     \/ /\ pc'[p] = "returned"
        /\ ret'[p].of = "refreshServerCapabilities"
        /\ ret'[p].id = id

C19_RefreshReconnectsWhenConnected ==
  [][\A p \in Procs :
       /\ \A id \in Ids :
            RefreshStarted(p, id) =>
              IF IsConnected(id)
              THEN /\ pc'[p] = "closing_client"
                   /\ dconn'[p] = connections[id].client
                   /\ cfg'[p] = connections[id].config
                   /\ connections' =
                        [connections EXCEPT ![id] = ClearLists(@)]
                   /\ handles' = handles
              ELSE /\ pc'[p] = "returned"
                   /\ ret'[p].status = NullStatus
                   /\ connections' = connections
                   /\ handles' = handles
       /\ (pc'[p] = "returned" /\ ret'[p].of = "refreshServerCapabilities")
            => ret'[p].kind = "return"]_vars

C19_Witness ==
  \E p \in Procs :
    /\ pc[p] = "returned"
    /\ ret[p].of = "refreshServerCapabilities"
    /\ ret[p].status.status = "connected"
    /\ IsConnected(ret[p].id)
    /\ \E h \in 1..Len(handles) :
         /\ handles[h].owner = ret[p].id
         /\ handles[h].transport = "closed"
         /\ h # connections[ret[p].id].client

(* C16 as claimed: when disconnectAll returns, none of the providers that  *)
(* had a Connection when it was called still has one.                      *)
C16_NoneLeftAfterSweep ==
  [][\A p \in Procs :
       (pc[p] = "sweeping" /\ pc'[p] = "returned")
       => \A id \in DOMAIN sweep[p] : ~MapHas(connections', id)]_vars

(* C16 as amended: disconnectAll starts a disconnectFromServer for every   *)
(* provider that has a Connection when it is called, each of them calling  *)
(* client.close at once; no call is dropped when another one fails to      *)
(* close; disconnectAll returns without raising, and when it returns none  *)
(* of those providers still has the Connection it had at the call: a       *)
(* Connection it has then was installed by a connectToServer that ran      *)
(* meanwhile.                                                              *)
C16_SweepAttemptsAll ==
  [][\A p \in Procs :
       /\ (pc[p] = "idle" /\ pc'[p] = "sweeping")
            => /\ DOMAIN sweep'[p] = DOMAIN connections
               /\ \A id \in DOMAIN connections :
                    sweep'[p][id] =
                      Task("closing_client", connections[id].client, FALSE)
       /\ (pc[p] = "idle" /\ pc'[p] = "returned"
             /\ ret'[p].of = "disconnectAll")
            => DOMAIN connections = {} /\ ret'[p].kind = "return"
       /\ (pc[p] = "sweeping" /\ pc'[p] = "sweeping")
            => DOMAIN sweep'[p] = DOMAIN sweep[p]
       /\ (pc[p] = "sweeping" /\ pc'[p] = "returned")
            => /\ ret'[p].kind = "return"
               /\ \A id \in DOMAIN sweep[p] :
                    \/ ~MapHas(connections', id)
                    \/ connections'[id].client # sweep[p][id].conn]_vars

C16_Witness ==
  \E p \in Procs :
    /\ pc[p] = "returned"
    /\ ret[p].of = "disconnectAll"
    /\ ret[p].kind = "return"
    /\ ret[p].warned = {"A"}
    /\ connections = EmptyMap
    /\ \E h \in 1..Len(handles) :
         handles[h].owner = "B" /\ handles[h].transport = "closed"

(* C18: once a provider's configuration record has been changed, nobody    *)
(* observes the provider connected through a Connection built from the     *)
(* previous record: whenever no update of the provider is in progress, a   *)
(* connected provider's Connection holds the record that is stored.        *)
UpdateInProgress(id) ==
  \E p \in Procs : op[p] \in {"update", "disable"} /\ serverId[p] = id

C18_NoStaleConnection ==
  \A id \in Ids :
    (IsConnected(id) /\ MapHas(stored, id) /\ ~UpdateInProgress(id))
    => connections[id].config = stored[id]

(* C20: a provider whose delete has completed (its record is gone) has no  *)
(* Connection, whatever other requests for the same id were in progress.   *)
C20_DeletedHasNoConnection ==
  \A id \in Ids : ~MapHas(stored, id) => ~MapHas(connections, id)

(* ------------------------------------------------------------------------ *)
(* C22: every transport kind the schema and the documentation list          *)
(* (stdio, sse, websocket) is connectable: no connectToServer of a          *)
(* configuration of a listed kind is turned down as an unsupported transport *)
C22_ListedKindsAreSupported ==
  \A p \in Procs :
    (pc[p] = "returned" /\ ret[p].of = "connectToServer"
       /\ ret[p].status.status = "error")
      => ret[p].status.error # "Unsupported transport type"

(* ------------------------------------------------------------------------ *)
(* C23: a connect whose handshake fails is tried again until maxRetries     *)
(* attempts were made: the call that reports the failure has called         *)
(* client.connect maxRetries times                                          *)
ConnectCalls(p) == Cardinality({h \in DOMAIN handles : h = client[p]})

C23_FailedHandshakeIsRetried ==
  [][\A p \in Procs :
       (pc[p] = "handshake" /\ pc'[p] = "returned")
         => ConnectCalls(p) >= DefaultMaxRetries]_vars

(* ------------------------------------------------------------------------ *)
(* C24: every disconnect of a stored Connection invokes client.close and    *)
(* transport.close, also when client.close fails: no disconnect leaves its  *)
(* client.close without going on to transport.close                         *)
C24_BothHandlesReleased ==
  [][\A p \in Procs :
       (pc[p] = "closing_client" /\ pc'[p] # "closing_client")
         => pc'[p] = "closing_transport"]_vars

(* ------------------------------------------------------------------------ *)
(* C25: when disconnectFromServer(id) returns, also after client.close or   *)
(* transport.close raised, it returns normally, id has no Connection (its   *)
(* status reads null, it is not connected) and no aggregator lists a        *)
(* descriptor of id                                                         *)
DisconnectReturns(p, id) ==
  /\ pc'[p] = "returned"
  /\ \/ op[p] = "disconnect" /\ pc[p] \in Closing /\ serverId[p] = id
     \/ pc[p] = "idle" /\ ret'[p].of = "disconnectFromServer" /\ ret'[p].id = id

C25_DisconnectedOnReturn ==
  [][\A p \in Procs : \A id \in Ids :
       DisconnectReturns(p, id)
       => /\ ret'[p] = RetVoid("disconnectFromServer", id)
          /\ ~MapHas(connections', id)
          /\ GetServerStatus(id)' = NullStatus
          /\ ~IsConnected(id)'
          /\ \A d \in Range(AllDescriptors)' : d.serverId # id]_vars

(* a disconnect has returned after its transport.close raised: the client   *)
(* of the pair is closed, its transport is not, and the entry is gone       *)
C25_Witness ==
  \E p \in Procs :
    /\ pc[p] = "returned"
    /\ ret[p] = RetVoid("disconnectFromServer", ret[p].id)
    /\ ~MapHas(connections, ret[p].id)
    /\ \E h \in 1..Len(handles) :
         /\ handles[h].owner = ret[p].id
         /\ handles[h].client = "closed"
         /\ handles[h].transport = "open"

(* ------------------------------------------------------------------------ *)
(* C26: in every state each capability flag of a recorded status is true    *)
(* exactly when the provider's list of that kind is non-empty, also while a *)
(* refresh of the provider is in progress                                   *)
C26_FlagsMatchLists ==
  \A id \in DOMAIN connections :
    \A field \in {"tools", "resources", "prompts"} :
      connections[id].status.capabilities[field]
        = (connections[id][field] # <<>>)

(* ------------------------------------------------------------------------ *)
(* C27: a provider's capability lists change as a whole.  Every step that   *)
(* changes what a reader sees for a provider either leaves no descriptor of *)
(* it, or puts in place all three lists of the one discovery that just      *)
(* finished on the client the new Connection holds; no step fills in a      *)
(* single list or part of one                                               *)
ListsOf(m, id) ==
  IF MapHas(m, id)
  THEN [tools |-> m[id].tools, resources |-> m[id].resources,
        prompts |-> m[id].prompts]
  ELSE [tools |-> <<>>, resources |-> <<>>, prompts |-> <<>>]

NoLists == [tools |-> <<>>, resources |-> <<>>, prompts |-> <<>>]

C27_ListsReplacedWholesale ==
  [][\A id \in Ids :
       ListsOf(connections', id) # ListsOf(connections, id)
       => \/ ListsOf(connections', id) = NoLists
          \/ \E p \in Procs :
               /\ pc[p] = "list_prompts"
               /\ serverId[p] = id
               /\ pc'[p] = "returned"
               /\ connections'[id].client = client[p]
               /\ connections'[id].tools = lists[p].tools
               /\ connections'[id].resources = lists[p].resources
               /\ connections'[id].prompts
                    \in {Tag(r, id) : r \in PromptReplies(id)} \cup {<<>>}]_vars

(* a refresh has replaced the lists: its discovery is stored on a new       *)
(* client, complete, while the pair of the Connection it cleared is closed  *)
C27_Witness ==
  \E p \in Procs :
    /\ pc[p] = "returned"
    /\ ret[p].of = "refreshServerCapabilities"
    /\ ret[p].status.status = "connected"
    /\ MapHas(connections, ret[p].id)
    /\ ListsOf(connections, ret[p].id)
         = [tools |-> Tag(<<"search">>, ret[p].id),
            resources |-> Tag(<<"doc">>, ret[p].id),
            prompts |-> Tag(<<"ask">>, ret[p].id)]
    /\ \E h \in 1..Len(handles) :
         /\ h < connections[ret[p].id].client
         /\ handles[h].owner = ret[p].id
         /\ handles[h].client = "closed"

(* ------------------------------------------------------------------------ *)
(* C28: the connections map holds connected Connections only: no entry has  *)
(* status connecting, error or disconnected, so getServerStatus(id) is null *)
(* or a status of the id whose value is connected, and getAllServerStatuses *)
(* lists connected statuses only                                            *)
C28_OnlyConnectedStored ==
  /\ \A id \in DOMAIN connections :
       connections[id].status.status = "connected"
  /\ \A id \in Ids :
       \/ GetServerStatus(id) = NullStatus
       \/ GetServerStatus(id).status = "connected"
            /\ GetServerStatus(id).id = id
  /\ \A id \in DOMAIN GetAllServerStatuses :
       GetAllServerStatuses[id].status = "connected"

(* a connect of one provider has returned an error and left no entry, while *)
(* another provider is stored                                               *)
C28_Witness ==
  \E p \in Procs : \E id \in Ids :
    /\ pc[p] = "returned"
    /\ ret[p].of = "connectToServer"
    /\ ret[p].status.status = "error"
    /\ ret[p].status.error \in HandshakeFailures
    /\ GetServerStatus(ret[p].id) = NullStatus
    /\ id # ret[p].id
    /\ GetServerStatus(id).status = "connected"

(* ------------------------------------------------------------------------ *)
(* C29 as claimed: connectToServer hands every failure inside it back as an *)
(* error status, a failure while closing the previous Connection included:  *)
(* a connect whose teardown raised returns status error                     *)
TeardownFails(p) ==
  \/ /\ pc[p] = "closing_client"
     /\ pc'[p] \notin Closing
  \/ /\ pc[p] = "closing_transport"
     /\ pc'[p] # "closing_transport"
     /\ handles'[dconn[p]].transport = "open"

C29_TeardownFailureIsReturned ==
  [][\A p \in Procs :
       (op[p] = "connect" /\ TeardownFails(p))
       => /\ pc'[p] = "returned"
          /\ ret'[p].status.status = "error"]_vars

(* C29: connectToServer never raises.  An invalid configuration, a failed   *)
(* handshake and the timeout are returned as a status error with a message; *)
(* a failure while closing the previous Connection is swallowed by          *)
(* disconnectFromServer and the connect goes on as after a clean teardown;  *)
(* a call that returns status connected has stored, in that step, a         *)
(* Connection for its id holding that status and the client it built        *)
ConnectReturns(p, id) ==
  /\ pc[p] # "returned"
  /\ pc'[p] = "returned"
  /\ ret'[p].of = "connectToServer"
  /\ ret'[p].id = id

C29_ConnectNeverRaises ==
  [][\A p \in Procs : \A id \in Ids :
       /\ ConnectReturns(p, id)
          => /\ ret'[p].kind = "return"
             /\ ret'[p].status.id = id
             /\ \/ /\ ret'[p].status.status = "error"
                   /\ ret'[p].status.error # ""
                \/ /\ ret'[p].status.status = "connected"
                   /\ MapHas(connections', id)
                   /\ connections'[id].status = ret'[p].status
                   /\ connections'[id].client = client[p]
       /\ (op[p] = "connect" /\ serverId[p] = id /\ pc[p] \in Closing
             /\ pc'[p] \notin Closing)
          => IF ConfigError(cfg[p]) = ""
             THEN pc'[p] = "handshake"
             ELSE /\ ConnectReturns(p, id)
                  /\ ret'[p].status.error = ConfigError(cfg[p])]_vars

(* a connect has returned connected although closing the previous           *)
(* Connection of its id had raised: the older pair still has an open        *)
(* transport behind a closed client                                         *)
C29_Witness ==
  \E p \in Procs :
    /\ pc[p] = "returned"
    /\ ret[p].of = "connectToServer"
    /\ ret[p].kind = "return"
    /\ ret[p].status.status = "connected"
    /\ MapHas(connections, ret[p].id)
    /\ connections[ret[p].id].status = ret[p].status
    /\ \E h \in 1..Len(handles) :
         /\ h < connections[ret[p].id].client
         /\ handles[h].owner = ret[p].id
         /\ handles[h].client = "closed"
         /\ handles[h].transport = "open"

(* ------------------------------------------------------------------------ *)
(* C30: operations on one provider leave every other provider alone: a step *)
(* of connectToServer, disconnectFromServer, refreshServerCapabilities,     *)
(* callTool or readResource for id a, succeeding or failing, changes        *)
(* neither the Connection (status and lists included) nor any client or     *)
(* transport of another id b, and builds no pair for b                      *)
Acts(p) ==
  \/ pc'[p] # pc[p]
  \/ timer'[p] # timer[p]
  \/ lists'[p] # lists[p]

ActsOn(p) ==
  IF serverId[p] # "" THEN serverId[p]
  ELSE IF serverId'[p] # "" THEN serverId'[p]
  ELSE IF pc[p] = "returned" THEN ret[p].id
  ELSE ret'[p].id

Untouched(b) ==
  /\ MapHas(connections', b) = MapHas(connections, b)
  /\ MapHas(connections, b) => connections'[b] = connections[b]
  /\ GetServerStatus(b)' = GetServerStatus(b)
  /\ Len(handles') >= Len(handles)
  /\ \A h \in 1..Len(handles') :
       IF h <= Len(handles)
       THEN handles[h].owner = b => handles'[h] = handles[h]
       ELSE handles'[h].owner # b

Reconnects == {"update", "create"}

AttemptStages == {"handshake"} \cup ListStages

DisableCompletes(p, id) ==
  /\ pc[p] # "returned"
  /\ pc'[p] = "returned"
  /\ ret'[p] = RetVoid("PUT /servers/:id", id)

AttemptBegins(p, id) ==
  /\ pc'[p] = "handshake"
  /\ serverId'[p] = id
  /\ Len(handles') = Len(handles) + 1
  /\ client'[p] = Len(handles')
  /\ handles'[client'[p]] = NewHandle(id)

AttemptRejected(p, id, c) ==
  /\ ConfigError(c) # ""
  /\ pc'[p] = "returned"
  /\ ret'[p].status = ErrorStatus(id, ConfigError(c))
  /\ handles' = handles

Kinds == {"tools", "resources", "prompts"}

Aggregate(kind) ==
  IF kind = "tools" THEN GetAllTools
  ELSE IF kind = "resources" THEN GetAllResources
  ELSE GetAllPrompts

C31_DescriptorsNameTheirProvider ==
  /\ \A id \in DOMAIN connections : \A kind \in Kinds :
       \A d \in Range(connections[id][kind]) : d.serverId = id
  /\ \A kind \in Kinds : \A d \in Range(Aggregate(kind)) :
       /\ MapHas(connections, d.serverId)
       /\ d \in Range(connections[d.serverId][kind])

(* both providers are connected and every aggregate holds descriptors of    *)
(* each of them                                                             *)
C31_Witness ==
  /\ \A id \in Ids : IsConnected(id)
  /\ \A kind \in Kinds : \A id \in Ids :
       \E d \in Range(Aggregate(kind)) : d.serverId = id

(* ------------------------------------------------------------------------ *)
(* C32: connectToServer with a configuration that lacks the parameter its   *)
(* transport needs (stdio without command, sse without url) ends in status  *)
(* error with the message that names the parameter; it builds no            *)
(* client/transport pair and never reaches the handshake                    *)
Lacking(c) ==
  \/ c.type = "stdio" /\ ~c.command
  \/ c.type = "sse" /\ ~c.url

MissingParameter(c) ==
  IF c.type = "stdio" THEN "Command is required for stdio transport"
  ELSE "URL is required for SSE transport"

RejectedAsLacking(p, c) ==
  /\ pc'[p] = "returned"
  /\ ret'[p] = RetStatus("connectToServer", c.id,
                         ErrorStatus(c.id, MissingParameter(c)), {})
  /\ Len(handles') = Len(handles)
  /\ \A h \in 1..Len(handles) :
       /\ handles[h].client = "closed" => handles'[h].client = "closed"
       /\ handles[h].transport = "closed" => handles'[h].transport = "closed"

C32_LackingConfigIsRejected ==
  [][\A p \in Procs :
       /\ \A id \in Ids : \A c \in Configs(id) :
            (Lacking(c) /\ ConnectToServer(p, c))
            => IF MapHas(connections, id)
               THEN pc'[p] = "closing_client" /\ cfg'[p] = c
                    /\ handles' = handles
               ELSE RejectedAsLacking(p, c)
       /\ (op[p] = "connect" /\ Lacking(cfg[p]) /\ pc'[p] # pc[p])
            => \/ pc[p] = "closing_client" /\ pc'[p] = "closing_transport"
                  /\ Len(handles') = Len(handles)
               \/ pc[p] \in Closing /\ RejectedAsLacking(p, cfg[p])]_vars

(* connects of a stdio provider without command and of an sse provider      *)
(* without url have both returned their error; the first had to close the   *)
(* Connection of its id before it validated                                 *)
C32_Witness ==
  \E p \in Procs : \E q \in Procs :
    /\ pc[p] = "returned"
    /\ ret[p].of = "connectToServer"
    /\ ret[p].status.error = "Command is required for stdio transport"
    /\ \E h \in 1..Len(handles) :
         handles[h].owner = ret[p].id /\ handles[h].transport = "closed"
    /\ \A h \in 1..Len(handles) :
         handles[h].owner = ret[p].id => handles[h].client = "closed"
    /\ pc[q] = "returned"
    /\ ret[q].of = "connectToServer"
    /\ ret[q].status.error = "URL is required for SSE transport"
    /\ \A h \in 1..Len(handles) : handles[h].owner # ret[q].id

(* ------------------------------------------------------------------------ *)
(* C33: a callTool or readResource that is in flight while its provider is  *)
(* disconnected or reconnected stays on the client it was sent on until it  *)
(* settles: it is never moved to the client of the replacement Connection,  *)
(* and the step in which it settles, with a result or a failure, changes no *)
(* Connection and no client or transport                                    *)
Superseded(p) ==
  /\ pc[p] = "request"
  /\ \/ ~MapHas(connections, serverId[p])
     \/ connections[serverId[p]].client # client[p]

C33_InFlightStaysOnItsConnection ==
  [][\A p \in Procs :
       pc[p] = "request"
       => /\ handles[client[p]].owner = serverId[p]
          /\ pc'[p] = "request"
               => /\ client'[p] = client[p]
                  /\ serverId'[p] = serverId[p]
                  /\ op'[p] = op[p]
          /\ (Superseded(p) /\ pc'[p] # "request")
               => /\ pc'[p] = "returned"
                  /\ ret'[p].of = op[p]
                  /\ ret'[p].id = serverId[p]
                  /\ ret'[p].answer.settled \in {"resolved", "rejected"}
                  /\ connections' = connections
                  /\ order' = order
                  /\ handles' = handles]_vars

(* a call is in flight on a client that has been closed while the provider  *)
(* is connected again on another client                                     *)
C33_Witness ==
  \E p \in Procs :
    /\ pc[p] = "request"
    /\ op[p] = "callTool"
    /\ IsConnected(serverId[p])
    /\ connections[serverId[p]].client # client[p]
    /\ handles[client[p]].client = "closed"
    /\ handles[connections[serverId[p]].client].client = "open"

(* ------------------------------------------------------------------------ *)
(* C34: every Connection in the map belongs to a provider that has a        *)
(* configuration record, in every interleaving of the delete, connect,      *)
(* update and create requests: no entry is stored, and no descriptor is     *)
(* aggregated, for an id without a record                                   *)
C34_ConnectionsHaveARecord ==
  /\ DOMAIN connections \subseteq DOMAIN stored
  /\ \A d \in Range(AllDescriptors) : d.serverId \in DOMAIN stored

(* ------------------------------------------------------------------------ *)
(* C35: updateServer(id, updates) changes only the fields that updates      *)
(* names, and updated_at: every other column of the row, max_retries and    *)
(* timeout among them, keeps its value; for an id without a row it returns  *)
(* null and changes nothing                                                 *)
ColumnOf(field) == IF field = "maxRetries" THEN "max_retries" ELSE field

C35_UpdateKeepsUnnamedFields ==
  [][\A id \in StoreIds \cup Unstored : \A updates \in Updates :
       McpModelUpdateServer(id, updates)
       => IF ~MapHas(mcp_servers, id)
          THEN /\ modelReply'.value = None
               /\ mcp_servers' = mcp_servers
          ELSE /\ \A other \in DOMAIN mcp_servers \ {id} :
                    mcp_servers'[other] = mcp_servers[other]
               /\ \A field \in DOMAIN updates :
                    updates[field] = None
                    => mcp_servers'[id][ColumnOf(field)]
                         = mcp_servers[id][ColumnOf(field)]]_vars

====
